---- MODULE Spec2Model ----
\* A model of inria-scraper.py: the jobs table (init_db, update_database,
\* export_to_excel), the listing and detail fetchers (fetch_jobs,
\* fetch_job_details), the text utility create_summary, and main.
EXTENDS Integers, Sequences, FiniteSets, TLC

\* ---------------------------------------------------------------- bounds

\* Entries on one listing page.
MaxEntries == 2
\* Records in a batch handed directly to update_database.
MaxBatch == 2
\* Characters of a text handed to create_summary.
MaxTextLen == 5
\* Largest max_length handed to create_summary (the default, 200, scaled down).
MaxLength == 5

\* ------------------------------------------------------- text utilities

\* Characters of the texts: a letter, the sentence terminator, whitespace.
Chars == {"a", ".", " "}

Ellipsis == <<".", ".", ".">>

Max(a, b) == IF a >= b THEN a ELSE b

Min(a, b) == IF a <= b THEN a ELSE b

\* Python's s[:n]: a negative n counts from the end.
SliceTo(s, n) ==
    IF n >= 0 THEN SubSeq(s, 1, Min(n, Len(s)))
    ELSE SubSeq(s, 1, Max(Len(s) + n, 0))

\* str.rstrip / str.lstrip on a sequence of characters.
RECURSIVE RStrip(_)
RStrip(s) ==
    IF s # <<>> /\ s[Len(s)] = " " THEN RStrip(SubSeq(s, 1, Len(s) - 1)) ELSE s

RECURSIVE LStrip(_)
LStrip(s) == IF s # <<>> /\ s[1] = " " THEN LStrip(Tail(s)) ELSE s

\* Position of the first sentence break of s at or after i: a terminator
\* followed by whitespace and then more text; 0 when there is none.
RECURSIVE FirstBreak(_, _)
FirstBreak(s, i) ==
    IF i >= Len(s) THEN 0
    ELSE IF s[i] = "." /\ s[i + 1] = " " /\ LStrip(SubSeq(s, i + 1, Len(s))) # <<>>
         THEN i
         ELSE FirstBreak(s, i + 1)

\* nltk's sent_tokenize: the text cut after each sentence break, the
\* whitespace between two sentences dropped, trailing whitespace dropped,
\* empty sentences dropped.
RECURSIVE SentTokenize(_)
SentTokenize(text) ==
    LET b == FirstBreak(text, 1) IN
    IF b = 0
    THEN IF RStrip(text) = <<>> THEN <<>> ELSE <<RStrip(text)>>
    ELSE <<SubSeq(text, 1, b)>> \o SentTokenize(LStrip(SubSeq(text, b + 1, Len(text))))

\* " ".join(parts)
RECURSIVE JoinSpace(_)
JoinSpace(parts) ==
    IF parts = <<>> THEN <<>>
    ELSE IF Len(parts) = 1 THEN parts[1]
    ELSE parts[1] \o <<" ">> \o JoinSpace(Tail(parts))

\* create_summary's except branch: the raw truncation of the text.
SummaryFallback(text, max_length) ==
    IF Len(text) > max_length THEN SliceTo(text, max_length) \o Ellipsis ELSE text

\* create_summary's try branch: the first two sentences, truncated.
SummaryMain(text, max_length) ==
    LET summary == JoinSpace(SubSeq(SentTokenize(text), 1, Min(2, Len(SentTokenize(text)))))
    IN IF Len(summary) > max_length
       THEN SliceTo(summary, max_length - 3) \o Ellipsis
       ELSE summary

\* create_summary(text, max_length); tokOk is FALSE when sent_tokenize raises
\* (its punkt resource is not installed). truncated records whether a
\* truncating branch was taken.
create_summary(text, max_length, tokOk) ==
    IF tokOk
    THEN [value |-> SummaryMain(text, max_length),
          truncated |-> Len(JoinSpace(SubSeq(SentTokenize(text), 1,
                                             Min(2, Len(SentTokenize(text)))))) > max_length,
          fallback |-> FALSE]
    ELSE [value |-> SummaryFallback(text, max_length),
          truncated |-> Len(text) > max_length,
          fallback |-> TRUE]

\* ------------------------------------------------------- classification

\* Titles are sequences of word tokens; " " is whitespace.
Lower(tok) ==
    CASE tok = "PhD" -> "phd"
      [] tok = "Position" -> "position"
      [] tok = "F/M" -> "f/m"
      [] tok = "Doctorant" -> "doctorant"
      [] tok = "F/H" -> "f/h"
      [] tok = "Engineer" -> "engineer"
      [] OTHER -> tok

LowerAll(s) == [i \in DOMAIN s |-> Lower(s[i])]

Strip(s) == LStrip(RStrip(s))

StartsWith(s, p) == Len(s) >= Len(p) /\ SubSeq(s, 1, Len(p)) = p

PrefixEn == <<"phd", " ", "position", " ", "f/m">>

PrefixFr == <<"doctorant", " ", "f/h">>

\* is_phd_position(title, description): the description is not consulted.
is_phd_position(title) ==
    LET title_lower == LowerAll(Strip(title))
    IN StartsWith(title_lower, PrefixEn) \/ StartsWith(title_lower, PrefixFr)

\* ---------------------------------------------------------- the store

\* A job is a Python dict: a function from the keys it holds to their values.
Get(job, k, d) == IF k \in DOMAIN job THEN job[k] ELSE d

\* The keys update_database reads with job[...]: a missing one raises KeyError.
RequiredKeys ==
    {"job_id", "title", "location", "posted_date", "summary", "link", "last_updated"}

\* The row update_database binds from a job (job.get(...) for the optional keys).
RowOf(job, id) ==
    [id |-> id,
     job_id |-> job["job_id"],
     title |-> job["title"],
     location |-> job["location"],
     team |-> Get(job, "team", ""),
     posted_date |-> job["posted_date"],
     deadline |-> Get(job, "deadline", ""),
     summary |-> job["summary"],
     link |-> job["link"],
     keywords |-> Get(job, "keywords", ""),
     supervisor |-> Get(job, "supervisor", ""),
     funding |-> Get(job, "funding", ""),
     is_phd |-> Get(job, "is_phd", TRUE),
     last_updated |-> job["last_updated"]]

\* SelectByJobId looking the key up in the wrong column: it never matches.
SelectByJobIdWrongColumn(rows, job_id) == {}

\* SELECT id FROM jobs WHERE job_id = ?: the positions of the matching rows.
SelectByJobId(rows, job_id) == {i \in DOMAIN rows : rows[i].job_id = job_id}

\* id INTEGER PRIMARY KEY: the next rowid.
NextId(rows) == IF rows = <<>> THEN 1 ELSE rows[Len(rows)].id + 1

\* INSERT INTO jobs: job_id TEXT UNIQUE rejects a job_id already in the table.
InsertJob(rows, job) ==
    IF SelectByJobId(rows, job["job_id"]) # {}
    THEN [ok |-> FALSE, rows |-> rows]
    ELSE [ok |-> TRUE, rows |-> Append(rows, RowOf(job, NextId(rows)))]

\* UpdateJob with a WHERE clause that matches no row.
UpdateJobMatchesNothing(rows, job) == rows

\* UPDATE jobs SET ... WHERE job_id = ?: every matching row, its id kept.
UpdateJob(rows, job) ==
    [i \in DOMAIN rows |->
        IF rows[i].job_id = job["job_id"] THEN RowOf(job, rows[i].id) ELSE rows[i]]

\* ProcessJob with new_jobs incremented before the statement that raises.
ProcessJobCountsFirst(st, job) ==
    IF "job_id" \notin DOMAIN job THEN st
    ELSE IF SelectByJobId(st.rows, job["job_id"]) = {}
    THEN IF ~(RequiredKeys \subseteq DOMAIN job) THEN [st EXCEPT !.new_jobs = @ + 1]
         ELSE [st EXCEPT !.rows = InsertJob(st.rows, job).rows, !.new_jobs = @ + 1]
    ELSE IF ~(RequiredKeys \subseteq DOMAIN job) THEN st
         ELSE [st EXCEPT !.rows = UpdateJob(st.rows, job), !.updated_jobs = @ + 1]

\* One iteration of update_database's loop; an exception leaves st as it was.
ProcessJob(st, job) ==
    IF "job_id" \notin DOMAIN job THEN st
    ELSE IF SelectByJobId(st.rows, job["job_id"]) = {}
    THEN IF ~(RequiredKeys \subseteq DOMAIN job) THEN st
         ELSE LET ins == InsertJob(st.rows, job)
              IN IF ins.ok
                 THEN [st EXCEPT !.rows = ins.rows, !.new_jobs = @ + 1]
                 ELSE st
    ELSE IF ~(RequiredKeys \subseteq DOMAIN job) THEN st
         ELSE [st EXCEPT !.rows = UpdateJob(st.rows, job), !.updated_jobs = @ + 1]

RECURSIVE UpdateLoop(_, _)
UpdateLoop(st, jobs) ==
    IF jobs = <<>> THEN st ELSE UpdateLoop(ProcessJob(st, Head(jobs)), Tail(jobs))

\* update_database emptying the table before it repopulates it.
update_database_reset(rows, jobs) ==
    UpdateLoop([rows |-> <<>>, new_jobs |-> 0, updated_jobs |-> 0], jobs)

\* update_database(jobs) on a table holding rows: the committed rows and the
\* two counters; new_jobs is what the function returns.
update_database(rows, jobs) ==
    UpdateLoop([rows |-> rows, new_jobs |-> 0, updated_jobs |-> 0], jobs)

\* pd.to_datetime(...).dt.strftime('%Y-%m-%d %H:%M'): the display form.
FormatTimestamp(t) == <<"Y-m-d H:M", t>>

\* One line of the sheet: the row without is_phd, last_updated in display form.
SheetRow(r) ==
    [id |-> r.id, job_id |-> r.job_id, title |-> r.title, location |-> r.location,
     team |-> r.team, posted_date |-> r.posted_date, deadline |-> r.deadline,
     summary |-> r.summary, link |-> r.link, keywords |-> r.keywords,
     supervisor |-> r.supervisor, funding |-> r.funding,
     last_updated |-> FormatTimestamp(r.last_updated)]

\* SelectPhd without its WHERE clause.
SelectEveryRow(rows) == rows

\* SELECT * FROM jobs WHERE is_phd = 1
SelectPhd(rows) == SelectSeq(rows, LAMBDA r : r.is_phd)

\* Python's None, as the path export_to_excel returns.
None == <<>>

\* f"inria_phd_positions_{timestamp}.xlsx"
FileName(now) == <<"inria_phd_positions_", ToString(now), ".xlsx">>

\* export_to_excel on a table holding rows at time now: the value returned
\* (None or the file name) and the files of the directory afterwards.
export_to_excel(rows, files, now) ==
    LET df == SelectPhd(rows) IN
    IF df = <<>>
    THEN [ret |-> None, files |-> files]
    ELSE [ret |-> FileName(now),
          files |-> [n \in DOMAIN files \cup {FileName(now)} |->
                        IF n = FileName(now)
                        THEN [i \in DOMAIN df |-> SheetRow(df[i])]
                        ELSE files[n]]]

\* ------------------------------------------------- the detail-page extractor

\* The points of fetch_job_details' try block at which an exception can end
\* it: the HTTP request, the title block after the description block, never.
FailPoints == {"request", "title", "none"}

\* A detail page as the selectors and patterns see it: the description
\* container (with what extract_keywords and the two patterns find in its
\* text), the heading, the texts next to the deadline and team labels.
PageFull ==
    [desc |-> [present |-> TRUE,
               text |-> <<"a", ".", " ", "a", "a", "a", ".">>,
               keywords |-> "networks, systems",
               supervisor |-> "Jane Doe",
               funding |-> ""],
     heading |-> <<"PhD", " ", "Position", " ", "F/M", " ", "X">>,
     deadline |-> "2025-06-30",
     team |-> "TEAM"]

PageOther ==
    [desc |-> [present |-> FALSE, text |-> <<>>, keywords |-> "",
               supervisor |-> "", funding |-> ""],
     heading |-> <<"Engineer", " ", "position">>,
     deadline |-> "",
     team |-> ""]

DetailPages == {PageFull, PageOther}

\* The keys of details populated when the try block ends at failAt.
DetailKeys(page, failAt) ==
    IF failAt = "request" THEN {}
    ELSE (IF page.desc.present
          THEN {"full_description", "keywords"}
               \cup (IF page.desc.supervisor # "" THEN {"supervisor"} ELSE {})
               \cup (IF page.desc.funding # "" THEN {"funding"} ELSE {})
          ELSE {})
         \cup (IF failAt = "title" THEN {}
               ELSE {"is_phd"}
                    \cup (IF page.deadline # "" THEN {"deadline"} ELSE {})
                    \cup (IF page.team # "" THEN {"team"} ELSE {}))

DetailValue(page, k) ==
    CASE k = "full_description" -> page.desc.text
      [] k = "keywords" -> page.desc.keywords
      [] k = "supervisor" -> page.desc.supervisor
      [] k = "funding" -> page.desc.funding
      [] k = "is_phd" -> is_phd_position(page.heading)
      [] k = "deadline" -> page.deadline
      [] k = "team" -> page.team

\* fetch_job_details without its except branch: a failure reaches the caller.
fetch_job_details_raising(page, failAt) ==
    [raised |-> failAt # "none",
     details |-> [k \in (IF failAt = "none" THEN DetailKeys(page, failAt) ELSE {}) |->
                    DetailValue(page, k)]]

\* fetch_job_details(url) when the site answers with page and the try block
\* ends at failAt: the except branch returns details as populated so far.
fetch_job_details(page, failAt) ==
    [raised |-> FALSE,
     details |-> [k \in DetailKeys(page, failAt) |-> DetailValue(page, k)]]

\* ------------------------------------------------------ the listing fetcher

Base == "https://jobs.inria.fr"

\* link / job_url made absolute (lines 243-244 and 320-321).
Absolute(href) ==
    IF href # <<>> /\ href[1] = "http" THEN href
    ELSE IF href # <<>> /\ href[1] = "/" THEN <<"http", Base>> \o href
    ELSE <<"http", Base, "/">> \o href

\* re.search(r'offre/(\w+)', link): the identifier after the first "offre/".
RECURSIVE OffreId(_)
OffreId(link) ==
    IF Len(link) < 2 THEN <<>>
    ELSE IF link[1] = "offre/" /\ link[2] \notin {"/", "offre/"} THEN <<link[2]>>
    ELSE OffreId(Tail(link))

\* f"job-{len(jobs)}"
SynthId(n) == <<"job-", ToString(n)>>

\* job_id.replace('offer-', '')
RemoveOfferPrefix(job_id) == SelectSeq(job_id, LAMBDA tok : tok # "offer-")

\* Keep with the gate left out.
KeepEverything(details, title) == TRUE

\* The gate of both loops: skip unless the detail page or the listing title
\* says PhD.
Keep(details, title) ==
    Get(details, "is_phd", FALSE) \/ is_phd_position(title)

\* The record appended to jobs (lines 263-277 and 347-361).
MakeJob(job_id, title, location, posted_date, link, details, now, tokOk) ==
    [k \in {"job_id", "title", "location", "team", "posted_date", "deadline",
            "summary", "link", "keywords", "supervisor", "funding", "is_phd",
            "last_updated"} |->
        CASE k = "job_id" -> job_id
          [] k = "title" -> title
          [] k = "location" -> location
          [] k = "team" -> Get(details, "team", "")
          [] k = "posted_date" -> posted_date
          [] k = "deadline" -> Get(details, "deadline", "")
          [] k = "summary" ->
                create_summary(Get(details, "full_description", <<>>), MaxLength, tokOk).value
          [] k = "link" -> link
          [] k = "keywords" -> Get(details, "keywords", "")
          [] k = "supervisor" -> Get(details, "supervisor", "")
          [] k = "funding" -> Get(details, "funding", "")
          [] k = "is_phd" -> TRUE
          [] k = "last_updated" -> now]

\* An entry of the listing page as the element selectors see it.
EntryPhd ==
    [hasTitle |-> TRUE, title |-> <<"PhD", " ", "Position", " ", "F/M", " ", "Y">>,
     hasLink |-> TRUE, href |-> <<"/", "offre/", "a">>, idAttr |-> <<>>,
     location |-> "Paris", date |-> ""]

EntryEngineer ==
    [hasTitle |-> TRUE, title |-> <<"Engineer", " ", "position">>,
     hasLink |-> TRUE, href |-> <<"http", Base, "/", "offres/", "b">>, idAttr |-> <<>>,
     location |-> "", date |-> "2025-01-01"]

EntryDoctorant ==
    [hasTitle |-> TRUE, title |-> <<"Doctorant", " ", "F/H", " ", "Z">>,
     hasLink |-> TRUE, href |-> <<"offre/", "c">>, idAttr |-> <<"offer-", "c">>,
     location |-> "", date |-> ""]

EntryUntitled ==
    [hasTitle |-> FALSE, title |-> <<>>,
     hasLink |-> TRUE, href |-> <<"/", "offre/", "d">>, idAttr |-> <<>>,
     location |-> "", date |-> ""]

Entries == {EntryPhd, EntryEngineer, EntryDoctorant, EntryUntitled}

\* ProcessElement applying the listing-title gate before the detail request.
ProcessElementGateFirst(entry, det, jobs, now, tokOk) ==
    IF ~entry.hasTitle \/ ~entry.hasLink \/ ~is_phd_position(entry.title)
    THEN [requested |-> FALSE, kept |-> FALSE, jobs |-> jobs]
    ELSE LET link == Absolute(entry.href)
             raw == IF entry.idAttr # <<>> THEN entry.idAttr
                    ELSE IF OffreId(link) # <<>> THEN OffreId(link)
                    ELSE SynthId(Len(jobs))
             job_id == RemoveOfferPrefix(raw)
             location == IF entry.location # "" THEN entry.location ELSE "Unknown"
             posted_date == IF entry.date # "" THEN entry.date ELSE "Unknown"
         IN IF det.raised
            THEN [requested |-> TRUE, kept |-> FALSE, jobs |-> jobs]
            ELSE [requested |-> TRUE, kept |-> TRUE,
                  jobs |-> Append(jobs, MakeJob(job_id, entry.title, location,
                                                posted_date, link, det.details,
                                                now, tokOk))]

\* One iteration of the loop over job_elements (lines 288-366) for entry,
\* with jobs as collected so far, when the detail fetch answers det.
\* requested: the detail page was asked for; kept: a record was appended.
ProcessElement(entry, det, jobs, now, tokOk) ==
    IF ~entry.hasTitle \/ ~entry.hasLink
    THEN [requested |-> FALSE, kept |-> FALSE, jobs |-> jobs]
    ELSE LET link == Absolute(entry.href)
             raw == IF entry.idAttr # <<>> THEN entry.idAttr
                    ELSE IF OffreId(link) # <<>> THEN OffreId(link)
                    ELSE SynthId(Len(jobs))
             job_id == RemoveOfferPrefix(raw)
             location == IF entry.location # "" THEN entry.location ELSE "Unknown"
             posted_date == IF entry.date # "" THEN entry.date ELSE "Unknown"
         IN IF det.raised \/ ~Keep(det.details, entry.title)
            THEN [requested |-> TRUE, kept |-> FALSE, jobs |-> jobs]
            ELSE [requested |-> TRUE, kept |-> TRUE,
                  jobs |-> Append(jobs, MakeJob(job_id, entry.title, location,
                                                posted_date, link, det.details,
                                                now, tokOk))]

\* One iteration of the fallback loop over job_links (lines 240-282).
ProcessLink(entry, det, jobs, now, tokOk) ==
    LET job_url == Absolute(entry.href)
        job_id == IF OffreId(job_url) # <<>> THEN OffreId(job_url)
                  ELSE SynthId(Len(jobs))
        title == IF entry.title # <<>> THEN entry.title ELSE <<"Job", " ">> \o job_id
    IN IF det.raised \/ ~Keep(det.details, title)
       THEN [requested |-> TRUE, kept |-> FALSE, jobs |-> jobs]
       ELSE [requested |-> TRUE, kept |-> TRUE,
             jobs |-> Append(jobs, MakeJob(job_id, title, "Unknown", "Unknown",
                                           job_url, det.details, now, tokOk))]

\* ------------------------------------------------------------- the state

VARIABLES
    pc,          \* where main is: "start", "fetch", "loop", "returned", "export",
                 \* "done"; "api" when the functions are called one by one
    tableExists, \* the jobs table exists in DB_FILE
    rows,        \* the rows of the jobs table, in rowid order
    files,       \* the spreadsheets of the working directory, by file name
    htmlDump,    \* inria_main_page.html was written
    punkt,       \* sent_tokenize's resource is installed
    now,         \* datetime.now() of this invocation
    mode,        \* which loop of fetch_jobs runs: "elements" or "links"
    listing,     \* the entries found on the listing page
    listingOk,   \* the listing request succeeded
    idx,         \* the next entry of listing
    jobs,        \* the list fetch_jobs builds and returns
    seen,        \* per entry handled: the entry, the detail answer, the outcome
    log,         \* the calls main has made so far, in order
    lastCall,    \* the last call of update_database or export_to_excel
    rows0,       \* the rows of the table when the invocation began
    sIn,         \* create_summary's arguments
    sOut         \* create_summary's result

vars ==
    <<pc, tableExists, rows, files, htmlDump, punkt, now, mode, listing, listingOk,
      idx, jobs, seen, log, lastCall, rows0, sIn, sOut>>

storeVars == <<tableExists, rows, files>>

fetchVars == <<htmlDump, mode, listing, listingOk, idx, jobs, seen>>

summaryVars == <<sIn, sOut>>

NoFiles == [n \in {} |-> n]

NoCall == [op |-> "none", batch |-> <<>>, new_jobs |-> 0, path |-> None, prevSame |-> FALSE]

NoSummary == [done |-> FALSE, value |-> <<>>, truncated |-> FALSE, fallback |-> FALSE]

\* The answer used where no detail page is received.
NoPage ==
    [desc |-> [present |-> FALSE, text |-> <<>>, keywords |-> "",
               supervisor |-> "", funding |-> ""],
     heading |-> <<>>, deadline |-> "", team |-> ""]

\* What the site can answer to one detail request.
DetailAnswers ==
    {[failAt |-> "request", page |-> NoPage]}
    \cup {[failAt |-> f, page |-> p] : f \in FailPoints \ {"request"}, p \in DetailPages}

\* Sequences over S of length at most n.
SeqUpTo(S, n) == UNION {[1..k -> S] : k \in 0..n}

\* A single complete record: every key update_database reads is there.
Complete(batch) == Len(batch) = 1 /\ RequiredKeys \subseteq DOMAIN batch[1]

\* ------------------------------------------------- stores left by earlier runs

\* A posting of an earlier listing that is no longer listed.
EntryOld ==
    [hasTitle |-> TRUE, title |-> <<"PhD", " ", "Position", " ", "F/M", " ", "O">>,
     hasLink |-> TRUE, href |-> <<"/", "offre/", "old">>, idAttr |-> <<>>,
     location |-> "Lille", date |-> ""]

EarlierJobs(entries) ==
    LET Step(js, e) ==
            ProcessElement(e, fetch_job_details(PageFull, "none"), js, 0, TRUE).jobs
    IN IF Len(entries) = 0 THEN <<>>
       ELSE IF Len(entries) = 1 THEN Step(<<>>, entries[1])
       ELSE Step(Step(<<>>, entries[1]), entries[2])

\* The tables an earlier invocation of main can have left in DB_FILE.
PriorStores ==
    {<<>>,
     update_database(<<>>, EarlierJobs(<<EntryOld, EntryPhd>>)).rows,
     update_database(<<>>, EarlierJobs(<<EntryEngineer>>)).rows}

\* ------------------------------------------------------------------ main

Init ==
    /\ pc = "start"
    /\ rows \in PriorStores
    /\ rows0 = rows
    /\ tableExists \in {rows # <<>>, TRUE}
    /\ files = NoFiles
    /\ htmlDump = FALSE
    /\ punkt \in BOOLEAN
    /\ now = 1
    /\ mode = "elements"
    /\ listing = <<>>
    /\ listingOk = FALSE
    /\ idx = 1
    /\ jobs = <<>>
    /\ seen = <<>>
    /\ log = <<>>
    /\ lastCall = NoCall
    /\ sIn = [text |-> <<>>, max_length |-> MaxLength, tokOk |-> TRUE]
    /\ sOut = NoSummary

\* init_db(): CREATE TABLE IF NOT EXISTS jobs.
InitDb ==
    /\ pc = "start"
    /\ tableExists' = TRUE
    /\ log' = Append(log, "init_db")
    /\ pc' = "fetch"
    /\ UNCHANGED <<rows, files, punkt, now, lastCall, rows0>>
    /\ UNCHANGED fetchVars
    /\ UNCHANGED summaryVars

\* fetch_jobs(), the listing request raising RequestException: return [].
FetchListingFails ==
    /\ pc = "fetch"
    /\ listingOk' = FALSE
    /\ jobs' = <<>>
    /\ log' = Append(log, "fetch_listing")
    /\ pc' = "returned"
    /\ UNCHANGED <<htmlDump, mode, listing, idx, seen>>
    /\ UNCHANGED <<punkt, now, lastCall, rows0>>
    /\ UNCHANGED storeVars
    /\ UNCHANGED summaryVars

\* fetch_jobs(), the listing request answered: the page is dumped and its
\* entries located, by a selector ("elements") or else by their links.
FetchListingOk ==
    /\ pc = "fetch"
    /\ \E m \in {"elements", "links"}, l \in SeqUpTo(Entries, MaxEntries) :
        /\ mode' = m
        /\ listing' = l
    /\ listingOk' = TRUE
    /\ htmlDump' = TRUE
    /\ idx' = 1
    /\ jobs' = <<>>
    /\ seen' = <<>>
    /\ log' = Append(log, "fetch_listing")
    /\ pc' = "loop"
    /\ UNCHANGED <<punkt, now, lastCall, rows0>>
    /\ UNCHANGED storeVars
    /\ UNCHANGED summaryVars

\* One iteration of the loop the page selected, the detail request included.
Iterate(m) ==
    /\ pc = "loop"
    /\ mode = m
    /\ idx <= Len(listing)
    /\ \E a \in DetailAnswers :
        LET det == fetch_job_details(a.page, a.failAt)
            r == IF m = "elements"
                 THEN ProcessElement(listing[idx], det, jobs, now, punkt)
                 ELSE ProcessLink(listing[idx], det, jobs, now, punkt)
        IN /\ (~r.requested => a = [failAt |-> "request", page |-> NoPage])
           /\ jobs' = r.jobs
           /\ seen' = Append(seen, [entry |-> listing[idx], answer |-> a,
                                    requested |-> r.requested,
                                    raised |-> r.requested /\ det.raised,
                                    details |-> IF r.requested THEN det.details
                                                ELSE [k \in {} |-> k],
                                    kept |-> r.kept,
                                    at |-> IF r.kept THEN Len(r.jobs) ELSE 0])
           /\ log' = IF r.requested THEN Append(log, "fetch_job_details") ELSE log
    /\ idx' = idx + 1
    /\ UNCHANGED <<pc, htmlDump, mode, listing, listingOk>>
    /\ UNCHANGED <<punkt, now, lastCall, rows0>>
    /\ UNCHANGED storeVars
    /\ UNCHANGED summaryVars

\* The loop over job_elements (lines 288-366).
IterateElements == Iterate("elements")

\* The fallback loop over job_links (lines 240-282).
IterateLinks == Iterate("links")

\* fetch_jobs returns jobs once the loop is over.
ReturnJobs ==
    /\ pc = "loop"
    /\ idx > Len(listing)
    /\ pc' = "returned"
    /\ UNCHANGED <<log, punkt, now, lastCall, rows0>>
    /\ UNCHANGED fetchVars
    /\ UNCHANGED storeVars
    /\ UNCHANGED summaryVars

\* NoJobs with the export made whatever fetch_jobs returned.
NoJobsStillExports ==
    /\ pc = "returned"
    /\ jobs = <<>>
    /\ files' = export_to_excel(rows, files, now).files
    /\ pc' = "done"
    /\ UNCHANGED <<tableExists, rows, log, punkt, now, lastCall, rows0>>
    /\ UNCHANGED fetchVars
    /\ UNCHANGED summaryVars

\* main, `if jobs:` false: nothing is written.
NoJobs ==
    /\ pc = "returned"
    /\ jobs = <<>>
    /\ pc' = "done"
    /\ UNCHANGED <<log, punkt, now, lastCall, rows0>>
    /\ UNCHANGED fetchVars
    /\ UNCHANGED storeVars
    /\ UNCHANGED summaryVars

\* MainUpdate returning from main without the export.
MainUpdateAndStop ==
    /\ pc = "returned"
    /\ jobs # <<>>
    /\ rows' = update_database(rows, jobs).rows
    /\ lastCall' = [op |-> "update_database", batch |-> jobs,
                    new_jobs |-> update_database(rows, jobs).new_jobs,
                    path |-> None, prevSame |-> FALSE]
    /\ log' = Append(log, "update_database")
    /\ pc' = "done"
    /\ UNCHANGED <<tableExists, files, punkt, now, rows0>>
    /\ UNCHANGED fetchVars
    /\ UNCHANGED summaryVars

\* main, `if jobs:` true: update_database(jobs).
MainUpdate ==
    /\ pc = "returned"
    /\ jobs # <<>>
    /\ LET st == update_database(rows, jobs)
       IN /\ rows' = st.rows
          /\ lastCall' = [op |-> "update_database", batch |-> jobs,
                          new_jobs |-> st.new_jobs, path |-> None, prevSame |-> FALSE]
    /\ log' = Append(log, "update_database")
    /\ pc' = "export"
    /\ UNCHANGED <<tableExists, files, punkt, now, rows0>>
    /\ UNCHANGED fetchVars
    /\ UNCHANGED summaryVars

\* main: export_to_excel().
MainExport ==
    /\ pc = "export"
    /\ LET e == export_to_excel(rows, files, now)
       IN /\ files' = e.files
          /\ lastCall' = [op |-> "export_to_excel", batch |-> <<>>, new_jobs |-> 0,
                          path |-> e.ret, prevSame |-> FALSE]
    /\ log' = Append(log, "export_to_excel")
    /\ pc' = "done"
    /\ UNCHANGED <<tableExists, rows, punkt, now, rows0>>
    /\ UNCHANGED fetchVars
    /\ UNCHANGED summaryVars

Next ==
    \/ InitDb
    \/ FetchListingFails
    \/ FetchListingOk
    \/ IterateElements
    \/ IterateLinks
    \/ ReturnJobs
    \/ NoJobs
    \/ MainUpdate
    \/ MainExport

Spec == Init /\ [][Next]_vars

\* ------------------------------------- the store's functions, called one by one

\* A complete record for job_id id, in version v of its field values.
SampleJob(id, v) ==
    MakeJob(<<id>>, <<"PhD", " ", "Position", " ", "F/M", " ", ToString(v)>>, "Paris",
            "Unknown", <<"http", Base, "/", "offre/", id>>,
            fetch_job_details(IF v = 1 THEN PageFull ELSE PageOther, "none").details,
            v, TRUE)

\* dict without some of its keys.
Without(job, keys) == [k \in DOMAIN job \ keys |-> job[k]]

\* Records as a caller can hand them to update_database: complete ones, one
\* lacking a key read with job[...], one lacking job_id, one lacking keys read
\* with job.get(...), one that is no PhD position.
SampleJobs ==
    {SampleJob("a", 1), SampleJob("a", 2),
     Without(SampleJob("a", 2), {"title"}),
     Without(SampleJob("b", 2), {"job_id"}),
     Without(SampleJob("b", 2), {"supervisor", "is_phd"}),
     [SampleJob("b", 1) EXCEPT !["is_phd"] = FALSE]}

InitStore ==
    /\ pc = "api"
    /\ tableExists = FALSE
    /\ rows = <<>>
    /\ rows0 = <<>>
    /\ files = NoFiles
    /\ htmlDump = FALSE
    /\ punkt = TRUE
    /\ now = 1
    /\ mode = "elements"
    /\ listing = <<>>
    /\ listingOk = FALSE
    /\ idx = 1
    /\ jobs = <<>>
    /\ seen = <<>>
    /\ log = <<>>
    /\ lastCall = NoCall
    /\ sIn = [text |-> <<>>, max_length |-> MaxLength, tokOk |-> TRUE]
    /\ sOut = NoSummary

\* init_db()
CallInitDb ==
    /\ pc = "api"
    /\ ~tableExists
    /\ tableExists' = TRUE
    /\ UNCHANGED <<pc, rows, files, punkt, now, log, lastCall, rows0>>
    /\ UNCHANGED fetchVars
    /\ UNCHANGED summaryVars

\* update_database(batch), once the table exists.
CallUpdateDatabase ==
    /\ pc = "api"
    /\ tableExists
    /\ \E batch \in SeqUpTo(SampleJobs, MaxBatch) :
        LET st == update_database(rows, batch)
        IN /\ rows' = st.rows
           /\ lastCall' =
                [op |-> "update_database", batch |-> batch, new_jobs |-> st.new_jobs,
                 path |-> None,
                 prevSame |-> /\ lastCall.op = "update_database"
                              /\ Complete(lastCall.batch)
                              /\ Complete(batch)
                              /\ lastCall.batch[1]["job_id"] = batch[1]["job_id"]]
    /\ UNCHANGED <<pc, tableExists, files, punkt, now, log, rows0>>
    /\ UNCHANGED fetchVars
    /\ UNCHANGED summaryVars

\* export_to_excel(), once the table exists.
CallExportToExcel ==
    /\ pc = "api"
    /\ tableExists
    /\ LET e == export_to_excel(rows, files, now)
       IN /\ files' = e.files
          /\ lastCall' = [op |-> "export_to_excel", batch |-> <<>>, new_jobs |-> 0,
                          path |-> e.ret, prevSame |-> FALSE]
    /\ UNCHANGED <<pc, tableExists, rows, punkt, now, log, rows0>>
    /\ UNCHANGED fetchVars
    /\ UNCHANGED summaryVars

NextStore ==
    \/ CallInitDb
    \/ CallUpdateDatabase
    \/ CallExportToExcel

SpecStore == InitStore /\ [][NextStore]_vars

\* ------------------------------------------------ create_summary, called alone

InitSummary ==
    /\ pc = "summary"
    /\ tableExists = FALSE
    /\ rows = <<>>
    /\ rows0 = <<>>
    /\ files = NoFiles
    /\ htmlDump = FALSE
    /\ punkt = TRUE
    /\ now = 1
    /\ mode = "elements"
    /\ listing = <<>>
    /\ listingOk = FALSE
    /\ idx = 1
    /\ jobs = <<>>
    /\ seen = <<>>
    /\ log = <<>>
    /\ lastCall = NoCall
    /\ sIn \in [text : SeqUpTo(Chars, MaxTextLen), max_length : 1..MaxLength,
                tokOk : BOOLEAN]
    /\ sOut = NoSummary

\* create_summary(text, max_length)
CallCreateSummary ==
    /\ pc = "summary"
    /\ ~sOut.done
    /\ LET r == create_summary(sIn.text, sIn.max_length, sIn.tokOk)
       IN sOut' = [done |-> TRUE, value |-> r.value, truncated |-> r.truncated,
                   fallback |-> r.fallback]
    /\ UNCHANGED <<pc, sIn, punkt, now, log, lastCall, rows0>>
    /\ UNCHANGED fetchVars
    /\ UNCHANGED storeVars

NextSummary == CallCreateSummary

SpecSummary == InitSummary /\ [][NextSummary]_vars

\* ---------------------------------------------------------------- claims

JobIds(rs) == {rs[i].job_id : i \in DOMAIN rs}

\* A record update_database cannot persist: a key it reads with job[...] is missing.
Fails(job) == ~(RequiredKeys \subseteq DOMAIN job)

\* C1. update_database is idempotent on job_id: when update_database([r]) has
\* been applied twice in a row for one job_id (r complete), exactly one row
\* carries that job_id, its fields are those of the second application, and
\* the second application returned an inserted count of 0.
C1_UpsertIdempotent ==
    (lastCall.op = "update_database" /\ lastCall.prevSame) =>
        LET r == lastCall.batch[1]
            hits == SelectByJobId(rows, r["job_id"])
        IN /\ Cardinality(hits) = 1
           /\ \A i \in hits : rows[i] = RowOf(r, rows[i].id)
           /\ lastCall.new_jobs = 0

C1_Witness ==
    /\ lastCall.op = "update_database"
    /\ lastCall.prevSame
    /\ lastCall.batch[1]["last_updated"] = 2
    /\ Len(rows) = 2

\* C2 as stated: an entry is kept (appended to the list fetch_jobs returns,
\* which is the batch main hands to update_database) only if its listing
\* title, stripped and lower-cased, starts with one of the two prefixes.
C2_ListingTitleGate ==
    \A i \in DOMAIN seen : seen[i].kept => is_phd_position(seen[i].entry.title)

\* C2 amended: an entry is kept only if its listing title matches or the
\* detail page fetched for it was classified PhD; the records of jobs are
\* exactly the kept entries, and jobs is the batch handed to update_database.
C2_GateWithDetailPage ==
    /\ \A i \in DOMAIN seen :
          seen[i].kept =>
              \/ is_phd_position(seen[i].entry.title)
              \/ /\ seen[i].answer.failAt = "none"
                 /\ is_phd_position(seen[i].answer.page.heading)
    /\ \A k \in DOMAIN jobs : \E i \in DOMAIN seen : seen[i].kept /\ seen[i].at = k
    /\ (pc \in {"export", "done"} /\ lastCall.op = "update_database" => lastCall.batch = jobs)
    /\ (pc = "done" /\ jobs = <<>> => lastCall = NoCall)

C2_Witness ==
    /\ pc = "done"
    /\ \E i \in DOMAIN seen :
          /\ seen[i].kept
          /\ ~is_phd_position(seen[i].entry.title)
          /\ \E j \in DOMAIN rows :
                rows[j].title = seen[i].entry.title /\ rows[j].last_updated = now

Details(k) == [i \in 1..k |-> "fetch_job_details"]

\* main ended after the steps up to the detail fetches.
EarlyAbort == \E k \in 0..Len(listing) : log = <<"init_db", "fetch_listing">> \o Details(k)

\* main made every step, in order.
FullRun ==
    \E k \in 0..Len(listing) :
        log = <<"init_db", "fetch_listing">> \o Details(k)
              \o <<"update_database", "export_to_excel">>

\* C3 as stated: a finished run made the full sequence in order or aborted
\* early, and whenever the listing request succeeded update_database and
\* export_to_excel were both executed.
C3_AbortOnlyOnListingFailure ==
    pc = "done" =>
        /\ FullRun \/ EarlyAbort
        /\ listingOk => FullRun

\* C3 amended: a finished run made the full sequence in order or aborted
\* early; it aborted early exactly when fetch_jobs returned an empty
\* sequence (the listing request failed, or no entry was kept).
C3_AbortIffNoJobs ==
    pc = "done" =>
        /\ FullRun \/ EarlyAbort
        /\ EarlyAbort <=> jobs = <<>>
        /\ ~listingOk => EarlyAbort

C3_Witness ==
    /\ pc = "done"
    /\ listingOk
    /\ Len(seen) = 2
    /\ seen[1].requested
    /\ jobs = <<>>
    /\ EarlyAbort

\* C4. A failed listing request is fatal to the run: fetch_jobs returns []
\* after the one request, no detail page is requested, the rows of the table
\* stay as they were and no spreadsheet is written.
C4_ListingFailureIsFatal ==
    (pc \in {"returned", "done"} /\ ~listingOk) =>
        /\ jobs = <<>>
        /\ seen = <<>>
        /\ log = <<"init_db", "fetch_listing">>
        /\ rows = rows0
        /\ files = NoFiles
        /\ lastCall = NoCall

C4_Witness == pc = "done" /\ ~listingOk /\ SelectPhd(rows) # <<>>

\* The entry reaches the detail request and the gate.
Eligible(s) == mode = "links" \/ (s.entry.hasTitle /\ s.entry.hasLink)

C6_FailuresIsolated ==
    [][lastCall'.op = "update_database" =>
          LET good == SelectSeq(lastCall'.batch, LAMBDA j : ~Fails(j))
              ref == update_database(rows, good)
          IN /\ rows' = ref.rows
             /\ lastCall'.new_jobs = ref.new_jobs]_vars

C6_Witness ==
    /\ lastCall.op = "update_database"
    /\ Len(lastCall.batch) = 2
    /\ Fails(lastCall.batch[1])
    /\ ~Fails(lastCall.batch[2])
    /\ lastCall.new_jobs = 1
    /\ Len(rows) = 2

\* C7. job_id is unique within the table, and no step changes the job_id (or
\* the rowid) of a row that exists.
C7_JobIdUnique ==
    /\ [](\A i, j \in DOMAIN rows : rows[i].job_id = rows[j].job_id => i = j)
    /\ [][\A i \in DOMAIN rows :
             /\ i \in DOMAIN rows'
             /\ rows'[i].job_id = rows[i].job_id
             /\ rows'[i].id = rows[i].id]_vars

C7_Witness ==
    /\ lastCall.op = "update_database"
    /\ Len(lastCall.batch) = 2
    /\ ~Fails(lastCall.batch[1])
    /\ ~Fails(lastCall.batch[2])
    /\ lastCall.batch[1]["job_id"] = lastCall.batch[2]["job_id"]
    /\ lastCall.new_jobs = 1
    /\ Len(rows) = 2

\* The last record of batch that carries job_id.
LastWith(batch, job_id) ==
    batch[CHOOSE k \in DOMAIN batch :
            /\ batch[k]["job_id"] = job_id
            /\ \A m \in DOMAIN batch : batch[m]["job_id"] = job_id => m <= k]

\* C8. Record lifecycle: no step of a run removes a job_id from the table;
\* update_database creates a row (after the existing ones) for a job_id seen
\* for the first time and overwrites in place the row of a job_id seen again.
C8_RecordLifecycle ==
    [][/\ \A i \in DOMAIN rows : i \in DOMAIN rows' /\ rows'[i].job_id = rows[i].job_id
       /\ lastCall'.op = "update_database" =>
             \A k \in DOMAIN lastCall'.batch :
                LET id == lastCall'.batch[k]["job_id"]
                    hits == SelectByJobId(rows', id)
                IN /\ Cardinality(hits) = 1
                   /\ \A i \in hits :
                         /\ rows'[i] = RowOf(LastWith(lastCall'.batch, id), rows'[i].id)
                         /\ id \in JobIds(rows) <=> i <= Len(rows)]_vars

C8_Witness ==
    /\ pc = "done"
    /\ listingOk
    /\ \A i \in DOMAIN listing : listing[i] # EntryOld
    /\ \E i \in DOMAIN rows : rows[i].job_id = <<"old">> /\ rows[i].last_updated = 0
    /\ \E i \in DOMAIN rows : rows[i].job_id = <<"a">> /\ rows[i].last_updated = now
    /\ Len(rows) > Len(rows0)

\* The columns of the jobs table.
Columns ==
    {"id", "job_id", "title", "location", "team", "posted_date", "deadline", "summary",
     "link", "keywords", "supervisor", "funding", "is_phd", "last_updated"}

\* C9. export_to_excel with no stored row flagged is_phd returns None and
\* writes no file; otherwise it returns a path and the file at that path
\* holds the stored is_phd rows, in order, without the is_phd column
\* (last_updated in its display form). It never changes the rows.
C9_Export ==
    [][lastCall'.op = "export_to_excel" =>
          /\ rows' = rows
          /\ IF \A i \in DOMAIN rows : ~rows[i].is_phd
             THEN lastCall'.path = None /\ files' = files
             ELSE LET phd == {i \in DOMAIN rows : rows[i].is_phd}
                      path == lastCall'.path
                  IN /\ path # None
                     /\ DOMAIN files' = DOMAIN files \cup {path}
                     /\ \A n \in DOMAIN files \ {path} : files'[n] = files[n]
                     /\ Len(files'[path]) = Cardinality(phd)
                     /\ \A n \in DOMAIN files'[path] :
                           \E i \in phd :
                              /\ Cardinality({j \in phd : j <= i}) = n
                              /\ DOMAIN files'[path][n] = Columns \ {"is_phd"}
                              /\ \A c \in Columns \ {"is_phd", "last_updated"} :
                                    files'[path][n][c] = rows[i][c]
                              /\ files'[path][n]["last_updated"]
                                    = FormatTimestamp(rows[i].last_updated)]_vars

C9_Witness ==
    /\ lastCall.op = "export_to_excel"
    /\ lastCall.path = None
    /\ rows # <<>>
    /\ files # NoFiles

IsPrefix(p, t) == Len(p) <= Len(t) /\ SubSeq(t, 1, Len(p)) = p

\* C10. create_summary never returns more than max_length characters, on the
\* except branch too; when it truncates, the result ends with "..." and what
\* precedes the "..." is a prefix of the text.
C10_SummaryBounded ==
    sOut.done =>
        /\ Len(sOut.value) <= sIn.max_length
        /\ sOut.truncated =>
              /\ Len(sOut.value) >= 3
              /\ SubSeq(sOut.value, Len(sOut.value) - 2, Len(sOut.value)) = Ellipsis
              /\ IsPrefix(SubSeq(sOut.value, 1, Len(sOut.value) - 3), sIn.text)

\* C11 as first stated: an entry reaches the detail request only after its
\* listing title has passed the gate, so no detail page is requested for an
\* entry whose listing title fails it.
C11_GateBeforeDetailFetch ==
    \A i \in DOMAIN seen :
        /\ seen[i].kept => seen[i].requested
        /\ seen[i].requested => is_phd_position(seen[i].entry.title)

\* C11. In fetch_jobs the detail request precedes the gate: fetch_job_details
\* is invoked once for every entry that has a title and a link (every link of
\* the fallback loop), whatever its listing title, and so for every kept
\* entry; an entry without title or link is skipped with no request; and jobs
\* grows only in an iteration that made its detail request.
C11_DetailFetchBeforeGate ==
    /\ [](\A i \in DOMAIN seen :
             /\ seen[i].kept => seen[i].requested
             /\ seen[i].requested <=> Eligible(seen[i]))
    /\ [][Len(seen') = Len(seen) + 1 =>
             LET s == seen'[Len(seen')]
             IN /\ s.entry = listing[idx]
                /\ Eligible(s) => log' = Append(log, "fetch_job_details")
                /\ ~Eligible(s) => log' = log /\ jobs' = jobs
                /\ jobs' # jobs => /\ log' # log
                                   /\ Len(jobs') = Len(jobs) + 1
                                   /\ s.kept]_vars

C11_Witness ==
    /\ pc = "done"
    /\ mode = "elements"
    /\ Len(seen) = 2
    /\ seen[1].requested
    /\ ~is_phd_position(seen[1].entry.title)
    /\ ~seen[1].kept
    /\ seen[2].requested
    /\ seen[2].kept

====
